---------------------------- MODULE Spec2Model ----------------------------
(***************************************************************************)
(* A model of sphinx_gherkindoc's tree-contraction engine (cli.py,         *)
(* process_args) and flat namer (utils.py, make_flat_name).                *)
(*                                                                         *)
(* Strings are sequences of one-character strings, so that joining,        *)
(* suffixing and suffix tests are computed character by character.         *)
(* An Optional[str] is a set: {} is None, {s} is the string s.             *)
(***************************************************************************)
EXTENDS Naturals, Sequences, FiniteSets

VARIABLES
    dirs,               \* source tree: the directories, each a sequence of segments
    tree_files,         \* source tree: the files, [dir, name]
    malformed,          \* source tree: feature files whose conversion fails
    dry_run,            \* args.dry_run of the current run
    step_glossary_name, \* args.step_glossary_name, the same in every run
    pc,                 \* position of the current run
    work_to_do,         \* process_args: the WorkUnits not yet popped
    non_empty_dirs,     \* process_args: the set of retained directory paths
    disk,               \* output directory: destination path -> content
    log,                \* persist operations of the current run, in order
    prev,               \* how the previous run ended
    fn_in,              \* flat namer: a pair of inputs
    fn_out              \* flat namer: the pair of results

vars == << dirs, tree_files, malformed, dry_run,
           step_glossary_name, pc, work_to_do, non_empty_dirs, disk,
           log, prev, fn_in, fn_out >>

tree_vars == << dirs, tree_files, malformed >>
flat_vars == << fn_in, fn_out >>

-----------------------------------------------------------------------------
(* Bounds *)

\* directories and files in the source tree, together
MaxEntries == 5
\* segments in a path list given to the flat namer
MaxSegs == 2

-----------------------------------------------------------------------------
(* Strings *)

None == {}
Some(s) == {s}
Value(opt) == CHOOSE s \in opt : TRUE

Last(s) == s[Len(s)]
Front(s) == SubSeq(s, 1, Len(s) - 1)

EndsWith(s, suffix) ==
    /\ Len(s) >= Len(suffix)
    /\ SubSeq(s, Len(s) - Len(suffix) + 1, Len(s)) = suffix

RECURSIVE Join(_, _)
Join(list, sep) ==
    IF list = << >> THEN << >>
    ELSE IF Len(list) = 1 THEN list[1]
    ELSE list[1] \o sep \o Join(Tail(list), sep)

Contains(s, c) == \E i \in 1..Len(s) : s[i] = c

OsPathJoin(a, b) == a \o << "/" >> \o b

DEFAULT_TOC_DEPTH == 4

RST_EXT == << ".", "r", "s", "t" >>
FEATURE_EXT == << ".", "f", "e", "a", "t", "u", "r", "e" >>
PNG_EXT == << ".", "p", "n", "g" >>

-----------------------------------------------------------------------------
(* utils.py *)

\* make_flat_name with the discriminator left out
make_flat_name_no_mark(path_list, filename_root, is_dir, ext) ==
    LET full == IF filename_root # None
                THEN Append(path_list, Value(filename_root))
                ELSE path_list
        result == Join(full, << "." >>)
    IN  IF ext = None THEN result ELSE result \o Value(ext)

make_flat_name(path_list, filename_root, is_dir, ext) ==
    LET full == IF filename_root # None
                THEN Append(path_list, Value(filename_root))
                ELSE path_list
        result == Join(full, << "." >>)
    IN  IF ext = None THEN result
        ELSE result
             \o (IF is_dir THEN << "-", "t", "o", "c" >>
                 ELSE << "-", "f", "i", "l", "e" >>)
             \o Value(ext)

\* SphinxWriter.write_to_file: FileAvoidWrite leaves a destination alone
\* whose content is already the content to write.
write_to_file(d, filename, content) ==
    LET same == filename \in DOMAIN d /\ d[filename] = content
    IN  [disk  |-> [p \in DOMAIN d \cup {filename} |->
                       IF p = filename THEN content ELSE d[p]],
         wrote |-> ~same]

\* shutil.copy writes the destination unconditionally.
shutil_copy(d, dest_name, content) ==
    [disk  |-> [p \in DOMAIN d \cup {dest_name} |->
                   IF p = dest_name THEN content ELSE d[p]],
     wrote |-> TRUE]

-----------------------------------------------------------------------------
(* The source tree and the command line *)

ROOT_NAME == << "r" >>
DirNames == { << "a" >>, << "b" >> }
DirOrder == << << "a" >>, << "b" >> >>

X_FEATURE == << "x" >> \o FEATURE_EXT
A_X_FEATURE == << "a", ".", "x" >> \o FEATURE_EXT
X_PNG == << "x" >> \o PNG_EXT
X_RST == << "x" >> \o RST_EXT
FileOrder == << A_X_FEATURE, X_FEATURE, X_PNG, X_RST >>
FileNames == { FileOrder[i] : i \in 1..Len(FileOrder) }

root_path == << "/", "w" >>
output_path == << "/", "o" >>
toc_name == << "g", "h", "e", "r", "k", "i", "n" >>
doc_project == ROOT_NAME
GlossaryNames == { None, Some(<< "s" >>) }
top_level_toc_filename == OsPathJoin(output_path, toc_name) \o RST_EXT

RootDir == << ROOT_NAME >>

\* The prefix-closed sets of at most k directories below the scan root.
RECURSIVE Trees(_)
Trees(k) ==
    IF k <= 1 THEN { { RootDir } }
    ELSE LET smaller == Trees(k - 1)
         IN  smaller \cup
             UNION { { t \cup { Append(p, n) } : p \in t, n \in DirNames } : t \in smaller }

RECURSIVE SubsetsUpTo(_, _)
SubsetsUpTo(S, k) ==
    IF k = 0 THEN { {} }
    ELSE LET smaller == SubsetsUpTo(S, k - 1)
         IN  smaller \cup { r \cup { x } : r \in smaller, x \in S }

IsPrefix(p, q) == Len(p) <= Len(q) /\ SubSeq(q, 1, Len(p)) = p
Children(d) == { c \in dirs : Len(c) = Len(d) + 1 /\ Front(c) = d }
FilesOf(d) == { f \in tree_files : f.dir = d }

\* os.path.join of the segments of a directory
DirPath(d) == Join(d, << "/" >>)

\* files.py
is_feature_file(a_file) == EndsWith(a_file, FEATURE_EXT)
is_rst_file(a_file) == EndsWith(a_file, RST_EXT)

\* files.py, scan_tree: one WorkUnit per directory
WorkUnit(d) ==
    [ a_dir      |-> DirPath(d),
      a_dir_list |-> d,
      subdirs    |-> SelectSeq(DirOrder, LAMBDA n : Append(d, n) \in dirs),
      files      |-> SelectSeq(FileOrder, LAMBDA f : [dir |-> d, name |-> f] \in tree_files) ]

\* files.py, scan_tree: os.walk lists a directory before the directories
\* below it, so that popping from the end yields the leaves first.
RECURSIVE Walk(_, _)
Walk(d, i) ==
    IF i > Len(DirOrder) THEN << >>
    ELSE (IF Append(d, DirOrder[i]) \in dirs
          THEN << Append(d, DirOrder[i]) >> \o Walk(Append(d, DirOrder[i]), 1)
          ELSE << >>)
         \o Walk(d, i + 1)

scan_order == << RootDir >> \o Walk(RootDir, 1)

scan_tree == [ i \in DOMAIN scan_order |-> WorkUnit(scan_order[i]) ]

-----------------------------------------------------------------------------
(* writer.py, glossary.py: the documents, as far as their content depends  *)
(* on the source tree                                                      *)

NoList == << >>

toctree(a_dir_list, new_subdirs, files, maxtocdepth, root) ==
    [ kind |-> "toc", src |-> OsPathJoin(root, DirPath(a_dir_list)),
      subdirs |-> new_subdirs, files |-> files, depth |-> maxtocdepth ]

feature_to_rst(source_path, root) ==
    [ kind |-> "feature", src |-> source_path,
      subdirs |-> NoList, files |-> NoList, depth |-> 0 ]

SourceBytes(source_path) ==
    [ kind |-> "copy", src |-> source_path,
      subdirs |-> NoList, files |-> NoList, depth |-> 0 ]

ConvertedIn(l) == SelectSeq(l, LAMBDA e : e.kind = "feature")

make_steps_glossary(project, l) ==
    IF ConvertedIn(l) = << >> THEN None
    ELSE Some([ kind |-> "glossary", src |-> project, subdirs |-> NoList,
                files |-> [ i \in DOMAIN ConvertedIn(l) |-> DirPath(ConvertedIn(l)[i].path_list) ],
                depth |-> 0 ])

LogEntry(kind, path_list, dest, subdirs, wrote) ==
    [ kind |-> kind, path_list |-> path_list, dest |-> dest,
      subdirs |-> subdirs, wrote |-> wrote ]

-----------------------------------------------------------------------------
(* cli.py, process_args *)

\* the subdirectories taken as they are listed
NewSubdirs_unfiltered(a_dir, subdirs, ned) == subdirs

\* lines 36-40
NewSubdirs(a_dir, subdirs, ned) ==
    SelectSeq(subdirs, LAMBDA subdir : OsPathJoin(a_dir, subdir) \in ned)

\* no directory is skipped
IsSkipped_never(files, new_subdirs) == FALSE

\* a directory is skipped when it has nothing but reST files
IsSkipped_ignorable(files, new_subdirs) ==
    /\ new_subdirs = << >>
    /\ \A i \in DOMAIN files : is_rst_file(files[i])

\* line 42
IsSkipped(files, new_subdirs) == ~(files # << >> \/ new_subdirs # << >>)

\* the dry-run flag is not looked at
DryRunSkips_never(args_dry_run) == FALSE

\* line 47
DryRunSkips(args_dry_run) == args_dry_run

\* every TOC gets its flat name
TocFilename_flat(a_dir_list, rest) ==
    OsPathJoin(output_path, make_flat_name(a_dir_list, None, TRUE, Some(RST_EXT)))

\* every TOC gets the top-level name
TocFilename_top(a_dir_list, rest) == top_level_toc_filename

\* lines 54-59
TocFilename(a_dir_list, rest) ==
    IF rest = << >> THEN top_level_toc_filename
    ELSE OsPathJoin(output_path, make_flat_name(a_dir_list, None, TRUE, Some(RST_EXT)))

\* lines 74-76
CopyDestName(a_file_list) ==
    OsPathJoin(output_path, make_flat_name(a_file_list, None, FALSE, None))

\* lines 67-69
FeatureDestName(a_file_list) ==
    OsPathJoin(output_path, make_flat_name(a_file_list, None, FALSE, Some(RST_EXT)))

\* lines 62-78: the files of one directory, from the i-th on.  A conversion
\* that fails raises out of the loop.
RECURSIVE ProcessFiles(_, _, _, _)
ProcessFiles(unit, i, d, l) ==
    IF i > Len(unit.files) THEN [ disk |-> d, log |-> l, failed |-> FALSE ]
    ELSE
      LET a_file == unit.files[i]
          a_file_list == Append(unit.a_dir_list, a_file)
          source_name == DirPath(a_file_list)
          source_path == OsPathJoin(root_path, source_name)
      IN  IF is_feature_file(a_file) THEN
            IF [dir |-> unit.a_dir_list, name |-> a_file] \in malformed
            THEN [ disk |-> d, log |-> l, failed |-> TRUE ]
            ELSE LET dest_name == FeatureDestName(a_file_list)
                     w == write_to_file(d, dest_name, feature_to_rst(source_path, root_path))
                 IN  ProcessFiles(unit, i + 1, w.disk,
                         Append(l, LogEntry("feature", a_file_list,
                                            dest_name, NoList, w.wrote)))
          ELSE IF ~is_rst_file(a_file) THEN
            LET dest_name == CopyDestName(a_file_list)
                w == shutil_copy(d, dest_name, SourceBytes(source_path))
            IN  ProcessFiles(unit, i + 1, w.disk,
                    Append(l, LogEntry("copy", a_file_list,
                                       dest_name, NoList, w.wrote)))
          ELSE ProcessFiles(unit, i + 1, d, l)

NoRun == [ completed |-> FALSE, dry_run |-> FALSE, non_empty_dirs |-> {} ]
NoFlat == << >>
EmptyDisk == [ p \in {} |-> NoList ]

Init ==
    /\ dirs \in Trees(MaxEntries)
    /\ tree_files \in SubsetsUpTo({ [dir |-> d, name |-> f] : d \in dirs, f \in FileNames },
                                  MaxEntries - Cardinality(dirs))
    /\ malformed \in SubsetsUpTo({ f \in tree_files : is_feature_file(f.name) }, 1)
    /\ dry_run = FALSE
    /\ step_glossary_name \in GlossaryNames
    /\ pc = "idle"
    /\ work_to_do = << >>
    /\ non_empty_dirs = {}
    /\ disk = EmptyDisk
    /\ log = << >>
    /\ prev = NoRun
    /\ fn_in = NoFlat
    /\ fn_out = NoFlat

\* main() and lines 22-32: a new invocation over the unchanged source tree
Main ==
    /\ pc \in { "idle", "done", "aborted" }
    /\ \E d \in BOOLEAN : dry_run' = d
    /\ work_to_do' = scan_tree
    /\ non_empty_dirs' = {}
    /\ log' = << >>
    /\ prev' = IF pc = "idle" THEN NoRun
               ELSE [ completed |-> (pc = "done"), dry_run |-> dry_run,
                      non_empty_dirs |-> non_empty_dirs ]
    /\ pc' = "loop"
    /\ UNCHANGED << tree_vars, step_glossary_name, disk, flat_vars >>

Popped == Last(work_to_do)
Rest == Front(work_to_do)
AfterLoop(rest) == IF rest = << >> THEN "glossary" ELSE "loop"

\* lines 34-43: a directory with no files and no retained subdirectories
SkipDir ==
    /\ pc = "loop"
    /\ work_to_do # << >>
    /\ LET new_subdirs == NewSubdirs(Popped.a_dir, Popped.subdirs, non_empty_dirs)
       IN  IsSkipped(Popped.files, new_subdirs)
    /\ work_to_do' = Rest
    /\ pc' = AfterLoop(Rest)
    /\ UNCHANGED << tree_vars, dry_run, step_glossary_name, non_empty_dirs,
                    disk, log, prev, flat_vars >>

\* lines 34-48: a retained directory in a dry run
DryRunDir ==
    /\ pc = "loop"
    /\ work_to_do # << >>
    /\ LET new_subdirs == NewSubdirs(Popped.a_dir, Popped.subdirs, non_empty_dirs)
       IN  ~IsSkipped(Popped.files, new_subdirs)
    /\ DryRunSkips(dry_run)
    /\ work_to_do' = Rest
    /\ non_empty_dirs' = non_empty_dirs \cup { Popped.a_dir }
    /\ pc' = AfterLoop(Rest)
    /\ UNCHANGED << tree_vars, dry_run, step_glossary_name,
                    disk, log, prev, flat_vars >>

\* lines 34-78: a retained directory; its TOC, then its files
EmitDir(failed) ==
    /\ pc = "loop"
    /\ work_to_do # << >>
    /\ ~DryRunSkips(dry_run)
    /\ LET unit == Popped
           new_subdirs == NewSubdirs(unit.a_dir, unit.subdirs, non_empty_dirs)
           toc_file == toctree(unit.a_dir_list, new_subdirs, unit.files,
                               DEFAULT_TOC_DEPTH, root_path)
           toc_filename == TocFilename(unit.a_dir_list, Rest)
           w == write_to_file(disk, toc_filename, toc_file)
           after == ProcessFiles(unit, 1, w.disk,
                        Append(log, LogEntry("toc", unit.a_dir_list,
                                             toc_filename, new_subdirs, w.wrote)))
       IN  /\ ~IsSkipped(unit.files, new_subdirs)
           /\ after.failed = failed
           /\ disk' = after.disk
           /\ log' = after.log
           /\ non_empty_dirs' = non_empty_dirs \cup { unit.a_dir }
    /\ work_to_do' = Rest
    /\ pc' = IF failed THEN "aborted" ELSE AfterLoop(Rest)
    /\ UNCHANGED << tree_vars, dry_run, step_glossary_name,
                    prev, flat_vars >>

WriteDir == EmitDir(FALSE)

\* line 70 raises: the exception leaves process_args
ConversionError == EmitDir(TRUE)

\* line 80: no glossary asked for
NoGlossaryName ==
    /\ pc = "glossary"
    /\ step_glossary_name = None
    /\ pc' = "done"
    /\ UNCHANGED << tree_vars, dry_run, step_glossary_name, work_to_do,
                    non_empty_dirs, disk, log, prev, flat_vars >>

\* lines 80-92: the glossary is not written
GlossaryNotWritten ==
    /\ pc = "glossary"
    /\ step_glossary_name # None
    /\ dry_run \/ make_steps_glossary(doc_project, log) = None
    /\ pc' = "done"
    /\ UNCHANGED << tree_vars, dry_run, step_glossary_name, work_to_do,
                    non_empty_dirs, disk, log, prev, flat_vars >>

\* lines 80-95: the glossary is written
GlossaryWritten ==
    /\ pc = "glossary"
    /\ step_glossary_name # None
    /\ ~dry_run
    /\ make_steps_glossary(doc_project, log) # None
    /\ LET glossary_filename ==
               OsPathJoin(output_path, Value(step_glossary_name) \o RST_EXT)
           w == write_to_file(disk, glossary_filename,
                              Value(make_steps_glossary(doc_project, log)))
       IN  /\ disk' = w.disk
           /\ log' = Append(log, LogEntry("glossary", << doc_project >>,
                                          glossary_filename, NoList, w.wrote))
    /\ pc' = "done"
    /\ UNCHANGED << tree_vars, dry_run, step_glossary_name, work_to_do,
                    non_empty_dirs, prev, flat_vars >>

Next ==
    \/ Main
    \/ SkipDir
    \/ DryRunDir
    \/ WriteDir
    \/ ConversionError
    \/ NoGlossaryName
    \/ GlossaryNotWritten
    \/ GlossaryWritten

Spec == Init /\ [][Next]_vars

-----------------------------------------------------------------------------
(* The flat namer on its own: two inputs with the same ext, then the two   *)
(* names                                                                   *)

SegValues == { << >>, << "a" >>, << "b" >>, << "a", ".", "b" >>,
               << "a", "-", "t", "o", "c" >> }
PathLists == UNION { [1..n -> SegValues] : n \in 0..MaxSegs }
ExtValues == { None, Some(RST_EXT) }

InitFlat ==
    /\ fn_in \in [ a_list : PathLists, a_is_dir : BOOLEAN,
                   b_list : PathLists, b_is_dir : BOOLEAN, ext : ExtValues ]
    /\ fn_out = NoFlat
    /\ dirs = { RootDir }
    /\ tree_files = {}
    /\ malformed = {}
    /\ dry_run = FALSE
    /\ step_glossary_name = None
    /\ pc = "flat"
    /\ work_to_do = << >>
    /\ non_empty_dirs = {}
    /\ disk = EmptyDisk
    /\ log = << >>
    /\ prev = NoRun

ApplyFlatName ==
    /\ pc = "flat"
    /\ fn_out = NoFlat
    /\ fn_out' = << make_flat_name(fn_in.a_list, None, fn_in.a_is_dir, fn_in.ext),
                    make_flat_name(fn_in.b_list, None, fn_in.b_is_dir, fn_in.ext) >>
    /\ UNCHANGED << tree_vars, dry_run, step_glossary_name, pc, work_to_do,
                    non_empty_dirs, disk, log, prev, fn_in >>

NextFlat == ApplyFlatName

SpecFlat == InitFlat /\ [][NextFlat]_vars

\* The input constraint of the flat namer: a non-empty list of non-empty
\* segments, none of which contains the separator.
ValidPathList(path_list) ==
    /\ path_list # << >>
    /\ \A i \in DOMAIN path_list :
          path_list[i] # << >> /\ ~Contains(path_list[i], ".")

FlatApplied == fn_out # NoFlat
FlatInputsValid == ValidPathList(fn_in.a_list) /\ ValidPathList(fn_in.b_list)
FlatInputsDiffer ==
    fn_in.a_list # fn_in.b_list \/ fn_in.a_is_dir # fn_in.b_is_dir

\* C5 (as stated): distinct (path_segments, is_dir) inputs with valid
\* segments and the same ext, an extension or None, get distinct names.
C5_CollisionFreeAnyExt ==
    (FlatApplied /\ FlatInputsValid /\ FlatInputsDiffer)
        => fn_out[1] # fn_out[2]

\* C5 (amended): with the same extension given (not None), distinct
\* (path_segments, is_dir) inputs with valid segments get distinct names;
\* with ext None, the name is the joined segments alone, so inputs with
\* distinct path_segments get distinct names and is_dir plays no part.
C5_CollisionFreeWithExt ==
    (FlatApplied /\ FlatInputsValid) =>
        /\ (fn_in.ext # None /\ FlatInputsDiffer) => fn_out[1] # fn_out[2]
        /\ (fn_in.ext = None /\ fn_in.a_list # fn_in.b_list) => fn_out[1] # fn_out[2]
        /\ (fn_in.ext = None /\ fn_in.a_list = fn_in.b_list) => fn_out[1] = fn_out[2]

C5_Witness ==
    /\ FlatApplied /\ FlatInputsValid
    /\ fn_in.ext # None
    /\ fn_in.a_list = fn_in.b_list
    /\ fn_in.a_is_dir # fn_in.b_is_dir
    /\ Len(fn_in.a_list) = MaxSegs
    /\ fn_out[1] # fn_out[2]

-----------------------------------------------------------------------------
(* Properties of process_args *)

InRun == pc \in { "loop", "glossary", "done", "aborted" }

\* the WorkUnit of d has been popped in the current run
IsPoppedDir(d) ==
    InRun /\ \A i \in DOMAIN work_to_do : work_to_do[i].a_dir_list # d

HasFiles(d) == FilesOf(d) # {}
HasRetainedSubdir(d) == \E c \in Children(d) : DirPath(c) \in non_empty_dirs
SubtreeHasFile(d) == \E f \in tree_files : IsPrefix(d, f.dir)
OnlyRstFiles(d) == HasFiles(d) /\ \A f \in FilesOf(d) : is_rst_file(f.name)

TocEntries(d) == { i \in DOMAIN log : log[i].kind = "toc" /\ log[i].path_list = d }
FileEntries(d) ==
    { i \in DOMAIN log : log[i].kind \in { "feature", "copy" }
                         /\ Front(log[i].path_list) = d }
FlatTocName(d) ==
    OsPathJoin(output_path, make_flat_name(d, None, TRUE, Some(RST_EXT)))

\* the scan root, the last WorkUnit, has been popped and handled
RootHandled == pc \in { "glossary", "done", "aborted" } /\ work_to_do = << >>
TopTocWritten ==
    \E i \in DOMAIN log : log[i].kind = "toc" /\ log[i].dest = top_level_toc_filename

\* C1: in every state of a run, a directory is in non_empty_dirs iff its
\* WorkUnit has been popped and it has a file or an immediate subdirectory
\* in non_empty_dirs; when the sequence is empty, non_empty_dirs is exactly
\* the set of directories whose subtree holds a file.
C1_NonEmptyDirs ==
    /\ \A d \in dirs :
          DirPath(d) \in non_empty_dirs
              <=> (IsPoppedDir(d) /\ (HasFiles(d) \/ HasRetainedSubdir(d)))
    /\ pc \in { "glossary", "done" } =>
          non_empty_dirs = { DirPath(d) : d \in { e \in dirs : SubtreeHasFile(e) } }

C1_Witness ==
    /\ pc = "done"
    /\ \E d \in dirs : ~HasFiles(d) /\ DirPath(d) \in non_empty_dirs
    /\ \E d \in dirs : DirPath(d) \notin non_empty_dirs

\* C2: a directory other than the scan root with no files and no retained
\* subdirectories is not in non_empty_dirs, has no TOC, converted or copied
\* file written for it, and is in no TOC's list of retained subdirectories.
C2_EmptyDirPruned ==
    \A d \in dirs \ { RootDir } :
        (~HasFiles(d) /\ ~HasRetainedSubdir(d)) =>
            /\ DirPath(d) \notin non_empty_dirs
            /\ TocEntries(d) = {}
            /\ FileEntries(d) = {}
            /\ \A i \in TocEntries(Front(d)) :
                  \A k \in DOMAIN log[i].subdirs : log[i].subdirs[k] # Last(d)

C2_Witness ==
    /\ ~dry_run
    /\ \E d \in dirs \ { RootDir } :
          /\ ~HasFiles(d) /\ ~HasRetainedSubdir(d)
          /\ IsPoppedDir(d)
          /\ TocEntries(Front(d)) # {}

\* C3 (as stated): in a run that is not dry, once the scan root has been
\* handled a TOC has been written under the top-level TOC name, whatever
\* the tree.
C3_RootNeverPruned == (RootHandled /\ ~dry_run) => TopTocWritten

\* C3 (amended): in a run that is not dry, once the scan root has been
\* handled a TOC has been written under the top-level TOC name exactly when
\* the root has a file or a retained subdirectory, and that TOC is the
\* root's; a root with neither is skipped like any other directory.
C3_RootWrittenWhenRetained ==
    (RootHandled /\ ~dry_run) =>
        /\ TopTocWritten <=> (HasFiles(RootDir) \/ HasRetainedSubdir(RootDir))
        /\ \A i \in DOMAIN log :
              (log[i].kind = "toc" /\ log[i].dest = top_level_toc_filename)
                  => log[i].path_list = RootDir

C3_Witness ==
    /\ RootHandled /\ ~dry_run
    /\ ~HasFiles(RootDir)
    /\ TopTocWritten
    /\ Cardinality(dirs) > 1

\* What a dry run leaves in each state: the non_empty_dirs of the run it is
\* compared with, and no persist operation.
C4_StatePart ==
    /\ (pc = "done" /\ prev.completed /\ prev.dry_run # dry_run)
          => non_empty_dirs = prev.non_empty_dirs
    /\ (InRun /\ dry_run) => log = << >>

\* C4: a dry run and a run that is not dry over the same tree end with the
\* same non_empty_dirs, and a dry run persists nothing: no step of it
\* changes the output directory.
C4_DryRunEquivalence ==
    /\ []C4_StatePart
    /\ [][(InRun /\ dry_run /\ pc \in { "loop", "glossary" }) => disk' = disk]_vars

C4_Witness ==
    /\ pc = "done" /\ dry_run
    /\ prev.completed /\ ~prev.dry_run
    /\ non_empty_dirs # {}
    /\ \E d \in dirs : DirPath(d) \notin non_empty_dirs
    /\ DOMAIN disk # {}

\* C6: a run that is not dry, after a completed run that was not dry over
\* the same tree, writes no file.
C6_SecondRunWritesNothing ==
    (pc = "done" /\ ~dry_run /\ prev.completed /\ ~prev.dry_run)
        => \A i \in DOMAIN log : ~log[i].wrote

\* C7: a run that is not dry ends only with every WorkUnit popped and every
\* file that is well-formed and not reST persisted, whether or not the
\* conversion of a specification file failed.
C7_ConversionErrorIsLocal ==
    (pc \in { "done", "aborted" } /\ ~dry_run) =>
        /\ work_to_do = << >>
        /\ \A f \in tree_files :
              (f \notin malformed /\ ~is_rst_file(f.name))
                  => \E i \in DOMAIN log : log[i].path_list = Append(f.dir, f.name)

\* C8 (as stated): a directory with nothing but reST files and no retained
\* subdirectories is not added to non_empty_dirs and gets no TOC.
C8_OnlyRstPruned ==
    \A d \in dirs :
        (IsPoppedDir(d) /\ OnlyRstFiles(d) /\ ~HasRetainedSubdir(d)) =>
            /\ DirPath(d) \notin non_empty_dirs
            /\ TocEntries(d) = {}

\* C8 (amended): a directory with nothing but reST files and no retained
\* subdirectories is retained: once popped it is in non_empty_dirs and, in
\* a run that is not dry, one TOC is written for it, while none of its
\* files is converted or copied.  Only a directory with no files at all
\* and no retained subdirectories is skipped.
C8_OnlyRstRetained ==
    \A d \in dirs :
        /\ (IsPoppedDir(d) /\ OnlyRstFiles(d) /\ ~HasRetainedSubdir(d)) =>
              /\ DirPath(d) \in non_empty_dirs
              /\ ~dry_run => Cardinality(TocEntries(d)) = 1
              /\ FileEntries(d) = {}
        /\ (IsPoppedDir(d) /\ ~HasFiles(d) /\ ~HasRetainedSubdir(d)) =>
              /\ DirPath(d) \notin non_empty_dirs
              /\ TocEntries(d) = {}

C8_Witness ==
    /\ ~dry_run
    /\ \E d \in dirs \ { RootDir } :
          /\ IsPoppedDir(d) /\ OnlyRstFiles(d) /\ ~HasRetainedSubdir(d)
          /\ DirPath(d) \in non_empty_dirs
          /\ TocEntries(d) # {}

\* C9: within one run, no two distinct source entities (directories,
\* specification files, copied files) are persisted under the same path.
C9_DistinctDestinations ==
    \A i, j \in DOMAIN log :
        (/\ log[i].kind # "glossary"
         /\ log[j].kind # "glossary"
         /\ log[i].path_list # log[j].path_list)
            => log[i].dest # log[j].dest

\* C10: in a run that is not dry, one TOC is written for each directory in
\* non_empty_dirs and none for any other; every subdirectory a TOC lists as
\* retained had its own TOC written earlier, under its flat name.
C10_TocsMirrorHierarchy ==
    (InRun /\ ~dry_run) =>
        /\ \A d \in dirs :
              Cardinality(TocEntries(d)) =
                  IF DirPath(d) \in non_empty_dirs THEN 1 ELSE 0
        /\ \A i \in DOMAIN log : log[i].kind = "toc" => log[i].path_list \in dirs
        /\ \A i \in DOMAIN log :
              log[i].kind = "toc" =>
                  \A k \in DOMAIN log[i].subdirs :
                      LET sub == Append(log[i].path_list, log[i].subdirs[k])
                      IN  \E j \in 1..(i - 1) :
                              /\ log[j].kind = "toc"
                              /\ log[j].path_list = sub
                              /\ log[j].dest = FlatTocName(sub)

C10_Witness ==
    /\ pc = "done" /\ ~dry_run
    /\ \E i \in DOMAIN log :
          /\ log[i].kind = "toc"
          /\ log[i].path_list = RootDir
          /\ log[i].subdirs # << >>
    /\ \E d \in dirs : DirPath(d) \notin non_empty_dirs

=============================================================================
